---- MODULE Spec2Model ----
(***************************************************************************)
(* Video export of a slide deck (VideoExportService): the timeline         *)
(* resolver of preRenderSlide, the frame loop of exportToVideo with its    *)
(* progress reports and failure paths, the choice of the recorder's mime   *)
(* type and getAnimationState; the export button of the toolbar; the       *)
(* navigation and autoplay of the presentation component.                  *)
(*                                                                         *)
(* Spec is the export job in a runtime that records every mime type;       *)
(* SpecCodec is the job in every runtime; SpecLongDeck is the job on long  *)
(* decks; SpecTimeline is preRenderSlide on one slide; SpecAnimation is    *)
(* getAnimationState on its arguments; SpecToolbar is onExportVideo        *)
(* around the job; SpecPresentation is the presentation component.         *)
(*                                                                         *)
(* Times are integers counted in ticks of 1/TicksPerSec second, so 0.5 s   *)
(* is 5 ticks.  A time multiplied by fps ("scaled") stays an integer when  *)
(* a frame index is added to it: currentTime * fps = td * fps + frame *    *)
(* TicksPerSec.  The JavaScript value undefined (and the falsy 0 that the  *)
(* code's `||` treats the same way) is the number 0 or the string          *)
(* "undefined".                                                            *)
(***************************************************************************)
EXTENDS Integers, Sequences, FiniteSets, Bags, TLC

TicksPerSec == 10

\* Bounds of the model.
MaxSlides == 2
MaxElems == 3
MaxLongDeck == 120

\* Defaults of preRenderSlide, in ticks.
DefaultTransitionDuration == 5
DefaultAnimationDuration == 5
DefaultSlideDuration == 50
DefaultOrder == 1

Max(a, b) == IF a >= b THEN a ELSE b

\* Math.ceil(n / d) for n >= 0, d > 0.
Ceil(n, d) == (n + d - 1) \div d

\* Math.round(n / d) for n >= 0, d > 0 (halves round up).
Round(n, d) == (2 * n + d) \div (2 * d)

----------------------------------------------------------------------------
(* Inputs: animations, elements, transitions, slides.                      *)

UndefinedAnimation ==
    [type |-> "undefined", duration |-> 0, delay |-> 0, order |-> 0,
     startTrigger |-> "undefined"]

UndefinedTransition == [type |-> "undefined", duration |-> 0]

Triggers == {"onClick", "withPrevious", "afterPrevious"}
Orders == {1, 2}
Delays == {0, 5}

\* An animation whose duration is missing, so that the default applies.
DefaultDurationAnimation ==
    [type |-> "fadeIn", duration |-> 0, delay |-> 0, order |-> 1,
     startTrigger |-> "afterPrevious"]

\* Every animation the timeline specification draws from: no animation, an
\* animation of type none, and animated ones with every trigger.
TimelineAnimations ==
    {UndefinedAnimation, DefaultDurationAnimation}
    \cup [type : {"none"}, duration : {10}, delay : {0}, order : Orders,
          startTrigger : {"onClick"}]
    \cup [type : {"fadeIn"}, duration : {10}, delay : Delays,
          order : Orders, startTrigger : Triggers]

TimelineTransitions ==
    {UndefinedTransition, [type |-> "fade", duration |-> 10]}

SeqsUpTo(S, n) == UNION {[1..k -> S] : k \in 0..n}

\* slide.elements: the k-th element carries id k, the k-th type ('image' or
\* 'text') and the k-th animation; the earlier an element is in the list,
\* the higher its zIndex.
MakeElements(anims, types) ==
    [k \in 1..Len(anims) |->
        [id |-> k, type |-> types[k], zIndex |-> Len(anims) + 1 - k,
         animation |-> anims[k]]]

MakeSlide(anims, types, dur, tr) ==
    [elements |-> MakeElements(anims, types), duration |-> dur, transition |-> tr]

AllText(anims) == [k \in 1..Len(anims) |-> "text"]

TimelineSlides ==
    {MakeSlide(a, AllText(a), 50, t) : a \in SeqsUpTo(TimelineAnimations, MaxElems),
                                       t \in TimelineTransitions}

\* The animations, transitions and durations of the slides of an export job.
Click ==
    [type |-> "fadeIn", duration |-> 0, delay |-> 0, order |-> 1,
     startTrigger |-> "onClick"]
AfterLong ==
    [type |-> "fadeIn", duration |-> 40, delay |-> 0, order |-> 2,
     startTrigger |-> "afterPrevious"]

JobElementLists ==
    {[animations |-> <<>>, types |-> <<>>],
     [animations |-> <<UndefinedAnimation>>, types |-> <<"image">>],
     [animations |-> <<AfterLong, Click>>, types |-> <<"text", "image">>]}

JobTransitions ==
    {UndefinedTransition, [type |-> "fade", duration |-> 10],
     [type |-> "none", duration |-> 3]}

JobDurations == {0, 50}

JobSlides ==
    {MakeSlide(l.animations, l.types, d, t) :
         l \in JobElementLists, d \in JobDurations, t \in JobTransitions}

FpsValues == {4, 10}

\* Long decks of one short slide: a few short lengths, a middle one and the
\* two longest.
LongDeckSlide ==
    MakeSlide(<<UndefinedAnimation>>, <<"image">>, 5, [type |-> "fade", duration |-> 3])

LongDeckLengths == (0..3) \cup {MaxLongDeck \div 2, MaxLongDeck - 1, MaxLongDeck}

\* The runtime: whether window.MediaRecorder exists and the mime types for
\* which MediaRecorder.isTypeSupported answers true.
MimeTypes == <<"video/webm;codecs=vp9", "video/webm;codecs=vp8", "video/webm">>

Runtimes ==
    [hasMediaRecorder : BOOLEAN,
     supported : SUBSET {MimeTypes[k] : k \in 1..Len(MimeTypes)}]

\* A runtime with MediaRecorder and every mime type of the list.
FullRuntime ==
    [hasMediaRecorder |-> TRUE,
     supported |-> {MimeTypes[k] : k \in 1..Len(MimeTypes)}]

\* The decks of the codec specification: slides with and without transition.
CodecSlides ==
    {MakeSlide(<<>>, <<>>, 10, UndefinedTransition),
     MakeSlide(<<Click>>, <<"image">>, 10, [type |-> "fade", duration |-> 3]),
     MakeSlide(<<>>, <<>>, 10, [type |-> "dissolve", duration |-> 5])}

----------------------------------------------------------------------------
VARIABLES
    slides,          \* slideService.slides(): the deck being exported
    fps,             \* finalOptions.fps
    pc,              \* position of exportToVideo
    runtime,         \* what the browser offers (window.MediaRecorder)
    recorder,        \* the MediaRecorder: its state and mime type
    result,          \* what the promise of exportToVideo settled to
    progress,        \* last record handed to onProgress
    reported,        \* number of onProgress calls so far, per status
    prepIdx,         \* i of the pre-render loop (1-based)
    sortedElements,  \* preRenderSlide: elements sorted by order
    elemIdx,         \* preRenderSlide: position in sortedElements
    lastEndTime,     \* preRenderSlide: end of the latest animation so far
    elements,        \* preRenderSlide: RenderedElements built so far
    renderedSlides,  \* RenderedSlide per prepared slide
    renderIdx,       \* i of the render loop (1-based)
    frame,           \* frame index of the running frame loop
    canvas,          \* what the last rendered frame shows
    frameCount,      \* frames captured so far, per slide and kind
    evaluation,      \* getAnimationState: its arguments and its result
    toolbar,         \* the toolbar's export button and its flag
    presentation     \* the presentation component and its timers

vars == <<slides, fps, pc, runtime, recorder, result, progress, reported,
          prepIdx, sortedElements, elemIdx, lastEndTime, elements,
          renderedSlides, renderIdx, frame, canvas, frameCount, evaluation,
          toolbar, presentation>>

uiVars == <<toolbar, presentation>>

envVars == <<runtime, recorder, result>>

prepVars == <<sortedElements, elemIdx, lastEndTime, elements>>
renderVars == <<renderIdx, frame, canvas, frameCount>>

----------------------------------------------------------------------------
(* preRenderSlide: the timeline of one slide.                              *)

\* a.animation?.order || 1
OrderOf(element) ==
    IF element.animation.order = 0 THEN DefaultOrder ELSE element.animation.order

\* Mutant of InsertByOrder: the elements are ordered by zIndex.
InsertByOrder_ZIndex(element, sorted) ==
    LET k == Cardinality({i \in 1..Len(sorted) : sorted[i].zIndex <= element.zIndex})
    IN  SubSeq(sorted, 1, k) \o <<element>> \o SubSeq(sorted, k + 1, Len(sorted))

\* Array.prototype.sort with (a, b) => orderA - orderB: a stable sort.
InsertByOrder(element, sorted) ==
    LET k == Cardinality({i \in 1..Len(sorted) : OrderOf(sorted[i]) <= OrderOf(element)})
    IN  SubSeq(sorted, 1, k) \o <<element>> \o SubSeq(sorted, k + 1, Len(sorted))

RECURSIVE SortByOrder(_)
SortByOrder(elems) ==
    IF elems = <<>> THEN <<>>
    ELSE InsertByOrder(elems[Len(elems)], SortByOrder(SubSeq(elems, 1, Len(elems) - 1)))

\* slide.transition?.duration || 0.5
TransitionDurationOf(slide) ==
    IF slide.transition.duration = 0 THEN DefaultTransitionDuration
    ELSE slide.transition.duration

\* slide.transition?.type || 'none'
TransitionTypeOf(slide) ==
    IF slide.transition.type = "undefined" THEN "none" ELSE slide.transition.type

\* slide.duration || 5
SlideDurationOf(slide) ==
    IF slide.duration = 0 THEN DefaultSlideDuration ELSE slide.duration

\* animation?.startTrigger || 'onClick'
TriggerOf(element) ==
    IF element.animation.startTrigger = "undefined" THEN "onClick"
    ELSE element.animation.startTrigger

\* animation?.delay || 0
DelayOf(element) == element.animation.delay

\* animation?.duration || 0.5
DurationOf(element) ==
    IF element.animation.duration = 0 THEN DefaultAnimationDuration
    ELSE element.animation.duration

\* animation?.type || 'none'
AnimationTypeOf(element) ==
    IF element.animation.type = "undefined" THEN "none" ELSE element.animation.type

IsAnimated(rendered) == rendered.animationType # "none"

\* Mutants of OnClickStart: the delay dropped; the transition dropped.
OnClickStart_NoDelay(td, extraDelay) == td

OnClickStart_NoTransition(td, extraDelay) == extraDelay

OnClickStart(td, extraDelay) == td + extraDelay

\* Mutant of WithPreviousStart: the predecessor is the last element pushed,
\* animated or not.
WithPreviousStart_AnyPrevious(td, extraDelay, done) ==
    IF Len(done) > 0 THEN done[Len(done)].startTime + extraDelay
    ELSE td + extraDelay

WithPreviousStart(td, extraDelay, done) ==
    LET prevAnimated == SelectSeq(done, IsAnimated)
    IN  IF Len(prevAnimated) > 0
        THEN prevAnimated[Len(prevAnimated)].startTime + extraDelay
        ELSE td + extraDelay

AfterPreviousStart(lastEnd, extraDelay) == lastEnd + extraDelay

\* startTime of one element, given the elements resolved before it.
ResolveStartTime(element, td, lastEnd, done) ==
    IF AnimationTypeOf(element) # "none"
    THEN CASE TriggerOf(element) = "onClick" -> OnClickStart(td, DelayOf(element))
           [] TriggerOf(element) = "withPrevious" ->
                  WithPreviousStart(td, DelayOf(element), done)
           [] TriggerOf(element) = "afterPrevious" ->
                  AfterPreviousStart(lastEnd, DelayOf(element))
           [] OTHER -> td
    ELSE 0

\* Mutants of NextLastEndTime: never advanced; advanced by afterPrevious only.
NextLastEndTime_Kept(element, lastEnd, startTime) == lastEnd

NextLastEndTime_AfterPreviousOnly(element, lastEnd, startTime) ==
    IF AnimationTypeOf(element) # "none" /\ TriggerOf(element) = "afterPrevious"
    THEN Max(lastEnd, startTime + DurationOf(element))
    ELSE lastEnd

\* lastEndTime after one element: advanced for every animated element.
NextLastEndTime(element, lastEnd, startTime) ==
    IF AnimationTypeOf(element) # "none"
    THEN Max(lastEnd, startTime + DurationOf(element))
    ELSE lastEnd

RenderElement(element, td, lastEnd, done) ==
    [element |-> element.id,
     startTime |-> ResolveStartTime(element, td, lastEnd, done),
     duration |-> DurationOf(element),
     animationType |-> AnimationTypeOf(element)]

MakeRenderedSlide(i, slide, done) ==
    [slide |-> i,
     elements |-> done,
     transitionType |-> TransitionTypeOf(slide),
     transitionDuration |-> TransitionDurationOf(slide),
     slideDuration |-> SlideDurationOf(slide),
     fullSnapshot |-> TRUE]

----------------------------------------------------------------------------
(* Frames.                                                                 *)

GetMaxAnimationEnd(rs) ==
    LET ends == {rs.elements[k].startTime + rs.elements[k].duration :
                   k \in {j \in 1..Len(rs.elements) : IsAnimated(rs.elements[j])}}
    IN  IF ends = {} THEN 0 ELSE CHOOSE m \in ends : \A e \in ends : e <= m

\* Mutant of ContentDuration: the nominal duration only, animations clipped.
ContentDuration_Nominal(rs) == rs.slideDuration - rs.transitionDuration

ContentDuration(rs) ==
    Max(rs.slideDuration - rs.transitionDuration, GetMaxAnimationEnd(rs))

\* Mutant of TransitionFrames: Math.floor.
TransitionFrames_Floor(rs, f) == (rs.transitionDuration * f) \div TicksPerSec

\* Math.ceil(slide.transitionDuration * fps)
TransitionFrames(rs, f) == Ceil(rs.transitionDuration * f, TicksPerSec)

\* Math.ceil(contentDuration * fps)
TotalFrames(rs, f) == Ceil(Max(ContentDuration(rs), 0) * f, TicksPerSec)

\* Mutant of HasTransition: the transition type is not looked at.
HasTransition_Always(i, rs) == i > 1

HasTransition(i, rs) == i > 1 /\ rs.transitionType # "none"

\* currentTime * fps of content frame n
CurrentTime(rs, n, f) == rs.transitionDuration * f + n * TicksPerSec

\* Mutants of ElementState: hidden until after startTime; hidden again once
\* the animation is over.
ElementState_Strict(el, t, f) ==
    IF el.animationType # "none"
    THEN IF t <= el.startTime * f THEN "hidden"
         ELSE IF t < (el.startTime + el.duration) * f THEN "animating"
         ELSE "rest"
    ELSE "rest"

ElementState_HiddenAfter(el, t, f) ==
    IF el.animationType # "none"
    THEN IF t < el.startTime * f THEN "hidden"
         ELSE IF t < (el.startTime + el.duration) * f THEN "animating"
         ELSE "hidden"
    ELSE "rest"

\* How renderSlideFrame draws one element at scaled time t.
ElementState(el, t, f) ==
    IF el.animationType # "none"
    THEN IF t < el.startTime * f THEN "hidden"
         ELSE IF t < (el.startTime + el.duration) * f THEN "animating"
         ELSE "rest"
    ELSE "rest"

RenderSlideFrame(rs, n, f) ==
    [kind |-> "content",
     slide |-> rs.slide,
     frame |-> n,
     time |-> CurrentTime(rs, n, f),
     drawn |-> [k \in 1..Len(rs.elements) |->
                  ElementState(rs.elements[k], CurrentTime(rs, n, f), f)],
     prevSnapshot |-> FALSE,
     background |-> rs.slide]

\* getAnimationState.  progress counts in 1/ProgressUnit; opacity and scale
\* count in 1/StateUnit, translations in 1/StateUnit pixel, the rotation in
\* 1/StateUnit degree.
ProgressUnit == 100
StateUnit == 1000

\* One step of progress, in state units.
PerProgress == StateUnit \div ProgressUnit

AnimationTypes ==
    {"none", "fadeIn", "fadeInUp", "fadeInDown", "fadeInLeft", "fadeInRight",
     "zoomIn", "zoomOut", "bounceIn", "slideInUp", "slideInDown", "slideInLeft",
     "slideInRight", "flipInX", "flipInY", "rotateIn", "pulse", "shake", "swing",
     "typewriter", "letterByLetter", "wordByWord", "highlight", "glitch"}

\* Mutant of OpacityOf: pulse, shake and swing fade in like the others.
OpacityOf_AlwaysProgress(type, p) == p * PerProgress

\* opacity = progress, but 1 for pulse, shake and swing.
OpacityOf(type, p) ==
    IF type \in {"pulse", "shake", "swing"} THEN StateUnit ELSE p * PerProgress

TranslateXOf(type, p, width) ==
    CASE type = "fadeInLeft" -> (ProgressUnit - p) * (-50) * PerProgress
      [] type = "fadeInRight" -> (ProgressUnit - p) * 50 * PerProgress
      [] type = "slideInLeft" -> (ProgressUnit - p) * (-width) * PerProgress
      [] type = "slideInRight" -> (ProgressUnit - p) * width * PerProgress
      [] OTHER -> 0

TranslateYOf(type, p, height) ==
    CASE type = "fadeInUp" -> (ProgressUnit - p) * 50 * PerProgress
      [] type = "fadeInDown" -> (ProgressUnit - p) * (-50) * PerProgress
      [] type = "slideInUp" -> (ProgressUnit - p) * height * PerProgress
      [] type = "slideInDown" -> (ProgressUnit - p) * (-height) * PerProgress
      [] OTHER -> 0

\* Mutant of BounceScale: the last leg stops short of 1.
BounceScale_Short(p) ==
    IF p * PerProgress < 600 THEN 18 * p
    ELSE IF p * PerProgress < 800 THEN 1100 - 5 * (p - 60)
         ELSE 900 + 4 * (p - 80)

\* bounceIn: 1.8 p below 0.6, 1.1 - (p - 0.6) 0.5 below 0.8, then
\* 0.9 + (p - 0.8) 0.5.
BounceScale(p) ==
    IF p * PerProgress < 600 THEN 18 * p
    ELSE IF p * PerProgress < 800 THEN 1100 - 5 * (p - 60)
         ELSE 900 + 5 * (p - 80)

ScaleOf(type, p) ==
    CASE type \in {"zoomIn", "rotateIn"} -> 300 + 7 * p
      [] type = "zoomOut" -> 1500 - 5 * p
      [] type = "bounceIn" -> BounceScale(p)
      [] type \in {"flipInX", "flipInY"} ->
             IF 2 * p < ProgressUnit THEN 2 * p * PerProgress ELSE StateUnit
      [] OTHER -> StateUnit

RotationOf(type, p) ==
    IF type = "rotateIn" THEN (ProgressUnit - p) * (-180) * PerProgress ELSE 0

GetAnimationState(type, p, width, height) ==
    [opacity |-> OpacityOf(type, p),
     translateX |-> TranslateXOf(type, p, width),
     translateY |-> TranslateYOf(type, p, height),
     scale |-> ScaleOf(type, p),
     rotation |-> RotationOf(type, p)]

\* The values renderSlideFrame uses for an element that is not animating.
RestState ==
    [opacity |-> StateUnit, translateX |-> 0, translateY |-> 0,
     scale |-> StateUnit, rotation |-> 0]

\* Arguments of getAnimationState: every type and one string that is none,
\* progress at the ends and around the breakpoints, two element sizes.
EvaluatedTypes == AnimationTypes \cup {"unrecognized"}
ProgressValues == {0, 25, 50, 59, 60, 79, 80, 100}
ElementSizes == {[width |-> 100, height |-> 50], [width |-> 192, height |-> 108]}

NoEvaluation ==
    [type |-> "none", progress |-> 0, width |-> 0, height |-> 0, done |-> FALSE,
     state |-> RestState]

\* Transition types whose branch draws prevSlide.fullSnapshot.
DrawsPrevious ==
    {"fade", "slideLeft", "slideRight", "slideUp", "slideDown", "zoomIn", "zoomOut"}

\* renderTransitionFrame draws the previous snapshot and the next slide's
\* background colour only: no element of the next slide.  Every branch of
\* the switch draws the next background; the branches of DrawsPrevious draw
\* the previous snapshot too.
RenderTransitionFrame(prev, next, n, f) ==
    [kind |-> "transition",
     slide |-> next.slide,
     frame |-> n,
     time |-> n * TicksPerSec,
     drawn |-> [k \in 1..Len(next.elements) |-> "hidden"],
     prevSnapshot |-> prev.fullSnapshot /\ next.transitionType \in DrawsPrevious,
     background |-> next.slide]

BlankCanvas ==
    [kind |-> "blank", slide |-> 0, frame |-> 0, time |-> 0, drawn |-> <<>>,
     prevSnapshot |-> FALSE, background |-> 0]

NoProgress ==
    [status |-> "none", currentSlide |-> 0, totalSlides |-> 0, progress |-> 0,
     message |-> ""]

Report(status, cur, total, pct, msg) ==
    [status |-> status, currentSlide |-> cur, totalSlides |-> total,
     progress |-> pct, message |-> msg]

Statuses == {"preparing", "rendering", "encoding", "complete", "error"}

\* onProgress?.(record): the record is handed over and counted.
Notify(record) ==
    /\ progress' = record
    /\ reported' = [reported EXCEPT ![record.status] = @ + 1]

NoRecorder == [state |-> "none", mimeType |-> ""]

----------------------------------------------------------------------------
(* exportToVideo.                                                          *)

NumSlides == Len(slides)

\* The toolbar before any export: isExportingVideo = false, no call of
\* exportToVideo outstanding, no timer of the finally block pending.
IdleToolbar ==
    [isExportingVideo |-> FALSE, awaiting |-> FALSE, holdTimer |-> FALSE,
     exports |-> 0, inProgress |-> 0, ignored |-> FALSE]

\* The presentation component as constructed: closed, first slide, no
\* autoplay, no timer. `timers` is the bag of the pending setTimeout
\* callbacks that touch the navigation state, each with the ticks left to
\* its deadline
\* (the one of kind "autoPlay" is this.autoPlayTimeout). `stopped`,
\* `lastCall` and `lastIgnored` record the calls: stopAutoPlay ran and
\* startAutoPlay has not run since; the last method or timer callback that
\* ran; whether it returned at `if (this.isNavigating) return`.
ClosedPresentation ==
    [isOpen |-> FALSE, currentSlideIndex |-> 0, isAutoPlaying |-> FALSE,
     isNavigating |-> FALSE, timers |-> EmptyBag, stopped |-> FALSE,
     lastCall |-> "none", lastIgnored |-> FALSE]

UIAtRest == toolbar = IdleToolbar /\ presentation = ClosedPresentation

InitJob(deck, f, rt) ==
    /\ slides = deck
    /\ fps = f
    /\ pc = "start"
    /\ runtime = rt
    /\ recorder = NoRecorder
    /\ result = "pending"
    /\ progress = NoProgress
    /\ reported = [s \in Statuses |-> 0]
    /\ prepIdx = 1
    /\ sortedElements = <<>>
    /\ elemIdx = 1
    /\ lastEndTime = 0
    /\ elements = <<>>
    /\ renderedSlides = <<>>
    /\ renderIdx = 1
    /\ frame = 0
    /\ canvas = BlankCanvas
    /\ frameCount = [i \in 1..Len(deck) |-> [transition |-> 0, content |-> 0]]

Init ==
    \E deck \in SeqsUpTo(JobSlides, MaxSlides), f \in FpsValues :
        InitJob(deck, f, FullRuntime) /\ evaluation = NoEvaluation /\ UIAtRest

InitTimeline ==
    \E slide \in TimelineSlides :
        InitJob(<<slide>>, 10, FullRuntime) /\ evaluation = NoEvaluation /\ UIAtRest

InitCodec ==
    \E deck \in SeqsUpTo(CodecSlides, MaxSlides), f \in FpsValues, rt \in Runtimes :
        InitJob(deck, f, rt) /\ evaluation = NoEvaluation /\ UIAtRest

\* catch (error): one error report, return null.
Catch(msg) ==
    /\ Notify(Report("error", 0, NumSlides, 0, msg))
    /\ result' = "null"
    /\ pc' = "error"

\* Mutant of ExportEmpty: the report without the return.
ExportEmpty_NoReturn ==
    /\ pc = "start"
    /\ NumSlides = 0
    /\ Notify(Report("error", 0, 0, 0, "Nenhum slide para exportar"))
    /\ pc' = "preRender"
    /\ UNCHANGED <<slides, fps, uiVars, evaluation, envVars, prepIdx, prepVars,
                   renderedSlides, renderVars>>

\* slides.length === 0: one error report, return null.
ExportEmpty ==
    /\ pc = "start"
    /\ NumSlides = 0
    /\ Notify(Report("error", 0, 0, 0, "Nenhum slide para exportar"))
    /\ result' = "null"
    /\ pc' = "error"
    /\ UNCHANGED <<slides, fps, uiVars, evaluation,
                   runtime, recorder, prepIdx, prepVars,
                   renderedSlides, renderVars>>

\* !window.MediaRecorder: the throw lands in the catch.
NoMediaRecorder ==
    /\ pc = "start"
    /\ NumSlides > 0
    /\ ~runtime.hasMediaRecorder
    /\ Catch("Seu navegador nao suporta gravacao de video")
    /\ UNCHANGED <<slides, fps, uiVars, evaluation,
                   runtime, recorder, prepIdx, prepVars,
                   renderedSlides, renderVars>>

\* The first 'preparing' report and the canvas; the pre-render loop starts.
ExportStart ==
    /\ pc = "start"
    /\ NumSlides > 0
    /\ runtime.hasMediaRecorder
    /\ Notify(Report("preparing", 0, NumSlides, 0, "Pre-renderizando elementos..."))
    /\ pc' = "preRender"
    /\ prepIdx' = 1
    /\ UNCHANGED <<slides, fps, uiVars, evaluation,
                   envVars, prepVars, renderedSlides, renderVars>>

\* Mutant of SpreadSort: slide.elements.sort(...) sorts the slide's own array.
SpreadSort_InPlace(elems) ==
    [sorted |-> SortByOrder(elems), original |-> SortByOrder(elems)]

\* [...slide.elements].sort(...): the copy is sorted, the slide's array is not
\* touched.
SpreadSort(elems) == [sorted |-> SortByOrder(elems), original |-> elems]

\* One turn of the pre-render loop up to the element loop of preRenderSlide:
\* the report, the sort by order, lastEndTime = transitionDuration.
PreRenderBegin ==
    /\ pc = "preRender"
    /\ prepIdx <= NumSlides
    /\ Notify(Report("preparing", prepIdx, NumSlides,
                     Round((prepIdx - 1) * 30, NumSlides), "Preparando slide"))
    /\ LET sort == SpreadSort(slides[prepIdx].elements)
       IN  /\ sortedElements' = sort.sorted
           /\ slides' = [slides EXCEPT ![prepIdx].elements = sort.original]
    /\ lastEndTime' = TransitionDurationOf(slides[prepIdx])
    /\ elemIdx' = 1
    /\ elements' = <<>>
    /\ pc' = "preRenderElements"
    /\ UNCHANGED <<fps, uiVars, evaluation, envVars, prepIdx, renderedSlides, renderVars>>

\* One turn of `for (const element of sortedElements)`.
PreRenderElement ==
    /\ pc = "preRenderElements"
    /\ elemIdx <= Len(sortedElements)
    /\ LET element == sortedElements[elemIdx]
           td == TransitionDurationOf(slides[prepIdx])
           rendered == RenderElement(element, td, lastEndTime, elements)
       IN  /\ lastEndTime' = NextLastEndTime(element, lastEndTime, rendered.startTime)
           /\ elements' = Append(elements, rendered)
    /\ elemIdx' = elemIdx + 1
    /\ UNCHANGED <<slides, fps, uiVars, evaluation,
                   pc, envVars, progress, reported, prepIdx,
                   sortedElements, renderedSlides, renderVars>>

\* renderElementToImage on an image whose load fails: img.complete is false,
\* onload never fires and nothing listens for the error, so the awaited
\* promise never settles.
ElementImageNeverLoads ==
    /\ pc = "preRenderElements"
    /\ elemIdx <= Len(sortedElements)
    /\ sortedElements[elemIdx].type = "image"
    /\ pc' = "imageWait"
    /\ UNCHANGED <<slides, fps, uiVars, evaluation,
                   envVars, progress, reported, prepIdx, prepVars,
                   renderedSlides, renderVars>>

\* What the catch reports when rasterization rejects: the message of the
\* Error html2canvas rejected with, or 'Erro desconhecido' for the Event that
\* img.onerror rejects with.
RasterMessages == {"html2canvas", "Erro desconhecido"}

\* renderElementToImage rejects (html2canvas, or the data-URL image's onerror).
ElementRasterFails ==
    /\ pc = "preRenderElements"
    /\ elemIdx <= Len(sortedElements)
    /\ \E msg \in RasterMessages : Catch(msg)
    /\ UNCHANGED <<slides, fps, uiVars, evaluation,
                   runtime, recorder, prepIdx, prepVars,
                   renderedSlides, renderVars>>

\* createFullSlideSnapshot -> createElementDivSimple on an image whose load
\* fails: the same wait as in renderElementToImage.
SnapshotImageNeverLoads ==
    /\ pc = "preRenderElements"
    /\ elemIdx > Len(sortedElements)
    /\ \E k \in 1..Len(slides[prepIdx].elements) :
           slides[prepIdx].elements[k].type = "image"
    /\ pc' = "imageWait"
    /\ UNCHANGED <<slides, fps, uiVars, evaluation,
                   envVars, progress, reported, prepIdx, prepVars,
                   renderedSlides, renderVars>>

\* createFullSlideSnapshot rejects.
SnapshotRasterFails ==
    /\ pc = "preRenderElements"
    /\ elemIdx > Len(sortedElements)
    /\ \E msg \in RasterMessages : Catch(msg)
    /\ UNCHANGED <<slides, fps, uiVars, evaluation,
                   runtime, recorder, prepIdx, prepVars,
                   renderedSlides, renderVars>>

\* The full snapshot, the return of preRenderSlide and renderedSlides.push.
PreRenderFinish ==
    /\ pc = "preRenderElements"
    /\ elemIdx > Len(sortedElements)
    /\ renderedSlides' =
           Append(renderedSlides, MakeRenderedSlide(prepIdx, slides[prepIdx], elements))
    /\ prepIdx' = prepIdx + 1
    /\ pc' = "preRender"
    /\ UNCHANGED <<slides, fps, uiVars, evaluation, envVars, progress, reported,
                   prepVars, renderVars>>

\* Mutant of SelectMimeType: the first entry of the list, supported or not.
SelectMimeType_First(supported) == MimeTypes[1]

\* let mimeType = vp9; if unsupported, vp8; if unsupported, plain webm.
SelectMimeType(supported) ==
    LET first == MimeTypes[1]
        second == IF first \notin supported THEN MimeTypes[2] ELSE first
    IN  IF second \notin supported THEN MimeTypes[3] ELSE second

\* The stream and the recorder are set up and started; the render loop starts.
StartRecording ==
    /\ pc = "preRender"
    /\ prepIdx > NumSlides
    /\ SelectMimeType(runtime.supported) \in runtime.supported
    /\ recorder' = [state |-> "recording",
                    mimeType |-> SelectMimeType(runtime.supported)]
    /\ pc' = "render"
    /\ renderIdx' = 1
    /\ UNCHANGED <<slides, fps, uiVars, evaluation,
                   runtime, result, progress, reported, prepIdx,
                   prepVars, renderedSlides, frame, canvas, frameCount>>

\* new MediaRecorder(stream, {mimeType}) with a mime type the user agent does
\* not support throws NotSupportedError; the throw lands in the catch.
RecorderNotSupported ==
    /\ pc = "preRender"
    /\ prepIdx > NumSlides
    /\ SelectMimeType(runtime.supported) \notin runtime.supported
    /\ Catch("NotSupportedError")
    /\ UNCHANGED <<slides, fps, uiVars, evaluation,
                   runtime, recorder, prepIdx, prepVars,
                   renderedSlides, renderVars>>

\* Mutant of RenderBegin: the rendering phase weighs 70.
RenderBegin_Weight70 ==
    /\ pc = "render"
    /\ renderIdx <= Len(renderedSlides)
    /\ Notify(Report("rendering", renderIdx, NumSlides,
                     30 + Round((renderIdx - 1) * 70, NumSlides),
                     "Renderizando slide"))
    /\ pc' = IF HasTransition(renderIdx, renderedSlides[renderIdx])
             THEN "transition" ELSE "content"
    /\ frame' = 0
    /\ UNCHANGED <<slides, fps, uiVars, evaluation, envVars, prepIdx, prepVars,
                   renderedSlides, renderIdx, canvas, frameCount>>

\* One turn of the render loop up to its first frame loop.
RenderBegin ==
    /\ pc = "render"
    /\ renderIdx <= Len(renderedSlides)
    /\ Notify(Report("rendering", renderIdx, NumSlides,
                     30 + Round((renderIdx - 1) * 60, NumSlides),
                     "Renderizando slide"))
    /\ pc' = IF HasTransition(renderIdx, renderedSlides[renderIdx])
             THEN "transition" ELSE "content"
    /\ frame' = 0
    /\ UNCHANGED <<slides, fps, uiVars, evaluation,
                   envVars, prepIdx, prepVars, renderedSlides,
                   renderIdx, canvas, frameCount>>

EmitTransitionFrame ==
    /\ pc = "transition"
    /\ frame < TransitionFrames(renderedSlides[renderIdx], fps)
    /\ canvas' = RenderTransitionFrame(renderedSlides[renderIdx - 1],
                                       renderedSlides[renderIdx], frame, fps)
    /\ frameCount' = [frameCount EXCEPT ![renderIdx].transition = @ + 1]
    /\ frame' = frame + 1
    /\ UNCHANGED <<slides, fps, uiVars, evaluation,
                   pc, envVars, progress, reported, prepIdx,
                   prepVars, renderedSlides, renderIdx>>

EndTransition ==
    /\ pc = "transition"
    /\ frame >= TransitionFrames(renderedSlides[renderIdx], fps)
    /\ pc' = "content"
    /\ frame' = 0
    /\ UNCHANGED <<slides, fps, uiVars, evaluation,
                   envVars, progress, reported, prepIdx, prepVars,
                   renderedSlides, renderIdx, canvas, frameCount>>

EmitContentFrame ==
    /\ pc = "content"
    /\ frame < TotalFrames(renderedSlides[renderIdx], fps)
    /\ canvas' = RenderSlideFrame(renderedSlides[renderIdx], frame, fps)
    /\ frameCount' = [frameCount EXCEPT ![renderIdx].content = @ + 1]
    /\ frame' = frame + 1
    /\ UNCHANGED <<slides, fps, uiVars, evaluation,
                   pc, envVars, progress, reported, prepIdx,
                   prepVars, renderedSlides, renderIdx>>

EndContent ==
    /\ pc = "content"
    /\ frame >= TotalFrames(renderedSlides[renderIdx], fps)
    /\ pc' = "render"
    /\ renderIdx' = renderIdx + 1
    /\ UNCHANGED <<slides, fps, uiVars, evaluation,
                   envVars, progress, reported, prepIdx, prepVars,
                   renderedSlides, frame, canvas, frameCount>>

\* Mutant of FinishRendering: the loop is left after its first slide.
FinishRendering_Early ==
    /\ pc = "render"
    /\ renderIdx > 1
    /\ Notify(Report("encoding", NumSlides, NumSlides, 90, "Finalizando video..."))
    /\ recorder' = [recorder EXCEPT !.state = "stopping"]
    /\ pc' = "encoding"
    /\ UNCHANGED <<slides, fps, uiVars, evaluation,
                   runtime, result, prepIdx, prepVars,
                   renderedSlides, renderVars>>

\* The render loop is over: the 'encoding' report, the handlers are set and
\* mediaRecorder.stop() is called; the returned promise is pending.
FinishRendering ==
    /\ pc = "render"
    /\ renderIdx > Len(renderedSlides)
    /\ Notify(Report("encoding", NumSlides, NumSlides, 90, "Finalizando video..."))
    /\ recorder' = [recorder EXCEPT !.state = "stopping"]
    /\ pc' = "encoding"
    /\ UNCHANGED <<slides, fps, uiVars, evaluation,
                   runtime, result, prepIdx, prepVars,
                   renderedSlides, renderVars>>

\* mediaRecorder.onstop: the 'complete' report, the promise resolves.
RecorderStopped ==
    /\ pc = "encoding"
    /\ recorder.state = "stopping"
    /\ Notify(Report("complete", NumSlides, NumSlides, 100, "Exportacao concluida!"))
    /\ recorder' = [recorder EXCEPT !.state = "inactive"]
    /\ result' = "blob"
    /\ pc' = "complete"
    /\ UNCHANGED <<slides, fps, uiVars, evaluation,
                   runtime, prepIdx, prepVars, renderedSlides,
                   renderVars>>

\* mediaRecorder.onerror: reject(new Error(...)).  The promise was returned
\* without await, so the rejection is not a throw inside the try: the catch
\* does not run and the promise of exportToVideo rejects.
RecorderError ==
    /\ pc = "encoding"
    /\ recorder.state = "stopping"
    /\ result' = "rejected"
    /\ pc' = "encoderFailed"
    /\ UNCHANGED <<slides, fps, uiVars, evaluation,
                   runtime, recorder, progress, reported, prepIdx,
                   prepVars, renderedSlides, renderVars>>

\* The stop event that follows the error event: onstop reports 'complete';
\* its resolve(blob) has no effect on the promise already rejected.
RecorderStoppedAfterError ==
    /\ pc = "encoderFailed"
    /\ recorder.state = "stopping"
    /\ Notify(Report("complete", NumSlides, NumSlides, 100, "Exportacao concluida!"))
    /\ recorder' = [recorder EXCEPT !.state = "inactive"]
    /\ UNCHANGED <<slides, fps, uiVars, evaluation,
                   pc, runtime, result, prepIdx, prepVars,
                   renderedSlides, renderVars>>

Next ==
    \/ ExportEmpty
    \/ ExportStart
    \/ PreRenderBegin
    \/ PreRenderElement
    \/ ElementImageNeverLoads
    \/ ElementRasterFails
    \/ SnapshotImageNeverLoads
    \/ SnapshotRasterFails
    \/ PreRenderFinish
    \/ StartRecording
    \/ RenderBegin
    \/ EmitTransitionFrame
    \/ EndTransition
    \/ EmitContentFrame
    \/ EndContent
    \/ FinishRendering
    \/ RecorderStopped
    \/ RecorderError
    \/ RecorderStoppedAfterError

Spec == Init /\ [][Next]_vars

\* preRenderSlide alone, on one slide drawn from every mix of animations.
NextTimeline ==
    \/ ExportStart
    \/ PreRenderBegin
    \/ PreRenderElement
    \/ PreRenderFinish

SpecTimeline == InitTimeline /\ [][NextTimeline]_vars

\* The export job on long decks.
InitLongDeck ==
    \E n \in LongDeckLengths, f \in FpsValues :
        /\ InitJob([k \in 1..n |-> LongDeckSlide], f, FullRuntime)
        /\ evaluation = NoEvaluation /\ UIAtRest

SpecLongDeck == InitLongDeck /\ [][Next]_vars

\* getAnimationState alone, on every argument drawn.
InitAnimation ==
    /\ InitJob(<<>>, 10, FullRuntime)
    /\ UIAtRest
    /\ \E type \in EvaluatedTypes, p \in ProgressValues, size \in ElementSizes :
           evaluation = [type |-> type, progress |-> p, width |-> size.width,
                         height |-> size.height, done |-> FALSE, state |-> RestState]

EvaluateAnimation ==
    /\ ~evaluation.done
    /\ evaluation' =
           [evaluation EXCEPT
              !.done = TRUE,
              !.state = GetAnimationState(evaluation.type, evaluation.progress,
                                          evaluation.width, evaluation.height)]
    /\ UNCHANGED <<slides, fps, uiVars, pc, envVars, progress, reported, prepIdx, prepVars,
                   renderedSlides, renderVars>>

NextAnimation == EvaluateAnimation

SpecAnimation == InitAnimation /\ [][NextAnimation]_vars

\* The export job in every runtime: with and without MediaRecorder, with
\* every set of supported mime types.
NextCodec ==
    \/ Next
    \/ NoMediaRecorder
    \/ RecorderNotSupported

SpecCodec == InitCodec /\ [][NextCodec]_vars

----------------------------------------------------------------------------
(* The toolbar's export button: onExportVideo.                             *)

\* Clicks of the export button that start a job in one behaviour.
MaxExports == 2

\* The options the toolbar passes: fps: 30.
ToolbarFps == 30

ToolbarDecks == SeqsUpTo(CodecSlides, MaxSlides)

\* this.videoExport.exportToVideo(...): a fresh call of the job on the
\* deck of the document.
CallExportToVideo ==
    /\ pc' = "start"
    /\ recorder' = NoRecorder
    /\ result' = "pending"
    /\ progress' = NoProgress
    /\ reported' = [s \in Statuses |-> 0]
    /\ prepIdx' = 1
    /\ sortedElements' = <<>>
    /\ elemIdx' = 1
    /\ lastEndTime' = 0
    /\ elements' = <<>>
    /\ renderedSlides' = <<>>
    /\ renderIdx' = 1
    /\ frame' = 0
    /\ canvas' = BlankCanvas
    /\ frameCount' = [i \in 1..NumSlides |-> [transition |-> 0, content |-> 0]]

InitToolbar ==
    \E deck \in ToolbarDecks :
        /\ InitJob(deck, ToolbarFps, FullRuntime)
        /\ evaluation = NoEvaluation
        /\ UIAtRest

\* onExportVideo without its first line.
OnExportVideo_NoGuard ==
    /\ toolbar.exports < MaxExports
    /\ toolbar' = [toolbar EXCEPT !.isExportingVideo = TRUE,
                                  !.awaiting = TRUE,
                                  !.exports = @ + 1,
                                  !.inProgress = @ + 1]
    /\ CallExportToVideo
    /\ UNCHANGED <<slides, fps, runtime, evaluation, presentation>>

\* A click of the export button, up to the await: `if
\* (this.isExportingVideo) return;`, else the flag is set and the job is
\* called.
OnExportVideo ==
    /\ toolbar.exports < MaxExports
    /\ IF toolbar.isExportingVideo
       THEN /\ toolbar' = [toolbar EXCEPT !.ignored = TRUE]
            /\ UNCHANGED <<pc, recorder, result, progress, reported, prepIdx,
                           prepVars, renderedSlides, renderVars>>
       ELSE /\ toolbar' = [toolbar EXCEPT !.isExportingVideo = TRUE,
                                          !.awaiting = TRUE,
                                          !.exports = @ + 1,
                                          !.inProgress = @ + 1]
            /\ CallExportToVideo
    /\ UNCHANGED <<slides, fps, runtime, evaluation, presentation>>

\* The await settles, with a blob, with null or by a rejection (try, catch),
\* and the finally block registers the timer of 3000 ms.
ExportSettled ==
    /\ toolbar.awaiting
    /\ result # "pending"
    /\ toolbar' = [toolbar EXCEPT !.awaiting = FALSE,
                                  !.holdTimer = TRUE,
                                  !.inProgress = @ - 1]
    /\ UNCHANGED <<slides, fps, evaluation, pc, envVars, progress, reported,
                   prepIdx, prepVars, renderedSlides, renderVars, presentation>>

\* The timer of the finally block: this.isExportingVideo = false.
HoldTimerFires ==
    /\ toolbar.holdTimer
    /\ toolbar' = [toolbar EXCEPT !.isExportingVideo = FALSE,
                                  !.holdTimer = FALSE]
    /\ UNCHANGED <<slides, fps, evaluation, pc, envVars, progress, reported,
                   prepIdx, prepVars, renderedSlides, renderVars, presentation>>

\* The job runs only once the button has called it.
NextToolbar ==
    \/ OnExportVideo
    \/ toolbar.awaiting /\ Next
    \/ ExportSettled
    \/ HoldTimerFires

SpecToolbar == InitToolbar /\ [][NextToolbar]_vars

----------------------------------------------------------------------------
(* The presentation component: navigation and autoplay. Times are in ticks *)
(* of 100 ms. The fields that only drive the display (isTransitioning,     *)
(* transitionClass, hasStarted, timeRemaining, the countdown interval, the *)
(* controls timeout) are left out.                                         *)

\* setTimeout(() => this.advanceToNextSlide(), 100)
RetryDelay == 1

\* Pending callbacks beyond which the user starts no autoplay.
MaxTimers == 3

\* The slides of a presentation: without transition, with a fade of 0.4 s,
\* with a fade without duration; each shown for 0.2 s.
PresentationSlides ==
    {MakeSlide(<<>>, <<>>, 2, UndefinedTransition),
     MakeSlide(<<>>, <<>>, 2, [type |-> "fade", duration |-> 4]),
     MakeSlide(<<>>, <<>>, 2, [type |-> "fade", duration |-> 0])}

\* Decks of one slide and of three.
PresentationDecks ==
    [1..1 -> PresentationSlides] \cup [1..3 -> PresentationSlides]

\* get totalSlides
TotalSlides == Len(slides)

\* this.slideService.slides()[index]?.duration || 5
SlideDurationAt(index) ==
    IF index < TotalSlides /\ slides[index + 1].duration # 0
    THEN slides[index + 1].duration
    ELSE DefaultSlideDuration

\* this.slideService.slides()[index]?.transition?.duration || 0.5
TransitionDurationAt(index) ==
    IF index < TotalSlides /\ slides[index + 1].transition.duration # 0
    THEN slides[index + 1].transition.duration
    ELSE DefaultTransitionDuration

\* transition && transition.type !== 'none'
HasEnterTransition(index) ==
    slides[index + 1].transition.type \notin {"undefined", "none"}

Timer(kind, left) == [kind |-> kind, left |-> left]

\* setTimeout(callback, left)
SetTimeout(timers, kind, left) == timers (+) SetToBag({Timer(kind, left)})

\* clearTimeout(this.autoPlayTimeout)
ClearAutoPlayTimeout(timers) ==
    [t \in {u \in DOMAIN timers : u.kind # "autoPlay"} |-> timers[t]]

\* navigateToSlide(newIndex)
NavigateToSlide(p, newIndex) ==
    IF p.isNavigating THEN p
    ELSE IF HasEnterTransition(newIndex)
         THEN [p EXCEPT !.isNavigating = TRUE,
                        !.currentSlideIndex = newIndex,
                        !.timers = SetTimeout(@, "navEnd",
                                       TransitionDurationAt(newIndex))]
         ELSE [p EXCEPT !.currentSlideIndex = newIndex]

\* stopAutoPlay()
StopAutoPlay(p) ==
    [p EXCEPT !.isAutoPlaying = FALSE,
              !.timers = ClearAutoPlayTimeout(@),
              !.stopped = TRUE]

\* scheduleNextSlide()
ScheduleNextSlide(p) ==
    [p EXCEPT !.timers = SetTimeout(ClearAutoPlayTimeout(@), "autoPlay",
                               SlideDurationAt(p.currentSlideIndex))]

\* startAutoPlay()
StartAutoPlay(p) ==
    ScheduleNextSlide([p EXCEPT !.isAutoPlaying = TRUE, !.stopped = FALSE])

\* The user interrupted: if (this.isAutoPlaying) this.stopAutoPlay()
StopIfAutoPlaying(p) == IF p.isAutoPlaying THEN StopAutoPlay(p) ELSE p

\* advanceToNextSlide()
AdvanceToNextSlide(p) ==
    IF p.isNavigating
    THEN [p EXCEPT !.timers = SetTimeout(@, "retry", RetryDelay)]
    ELSE IF p.currentSlideIndex < TotalSlides - 1
         THEN LET q == NavigateToSlide(p, p.currentSlideIndex + 1)
              IN  [q EXCEPT !.timers =
                       SetTimeout(@, "reschedule",
                           TransitionDurationAt(q.currentSlideIndex + 1))]
         ELSE StopIfAutoPlaying(p)

Called(p, name, ignored) ==
    [p EXCEPT !.lastCall = name, !.lastIgnored = ignored]

PresentationUnchanged ==
    UNCHANGED <<slides, fps, evaluation, pc, envVars, progress, reported,
                prepIdx, prepVars, renderedSlides, renderVars, toolbar>>

InitPresentation ==
    \E deck \in PresentationDecks :
        /\ InitJob(deck, 10, FullRuntime)
        /\ evaluation = NoEvaluation
        /\ UIAtRest

\* open(): the index of the slide that is current in the editor.
Open ==
    /\ ~presentation.isOpen
    /\ \E index \in 0..(TotalSlides - 1) :
           presentation' = Called([presentation EXCEPT
                                      !.isOpen = TRUE,
                                      !.currentSlideIndex = index],
                                  "open", FALSE)
    /\ PresentationUnchanged

\* close()
Close ==
    /\ presentation.isOpen
    /\ presentation' = Called(StopAutoPlay([presentation EXCEPT
                                               !.isOpen = FALSE]),
                              "close", FALSE)
    /\ PresentationUnchanged

\* nextSlide() without its first line.
NextSlide_NoGuard ==
    /\ presentation.isOpen
    /\ presentation' =
         Called(IF presentation.currentSlideIndex < TotalSlides - 1
                THEN StopIfAutoPlaying(
                         [presentation EXCEPT
                             !.currentSlideIndex = @ + 1])
                ELSE StopIfAutoPlaying(presentation),
                "nextSlide", FALSE)
    /\ PresentationUnchanged

\* nextSlide()
NextSlide ==
    /\ presentation.isOpen
    /\ presentation' =
         Called(IF presentation.isNavigating THEN presentation
                ELSE IF presentation.currentSlideIndex < TotalSlides - 1
                     THEN StopIfAutoPlaying(
                              NavigateToSlide(presentation,
                                  presentation.currentSlideIndex + 1))
                     ELSE StopIfAutoPlaying(presentation),
                "nextSlide", presentation.isNavigating)
    /\ PresentationUnchanged

\* prevSlide()
PrevSlide ==
    /\ presentation.isOpen
    /\ presentation' =
         Called(IF presentation.isNavigating THEN presentation
                ELSE IF presentation.currentSlideIndex > 0
                     THEN StopIfAutoPlaying(
                              NavigateToSlide(presentation,
                                  presentation.currentSlideIndex - 1))
                     ELSE presentation,
                "prevSlide", presentation.isNavigating)
    /\ PresentationUnchanged

\* goToSlide(index), with indexes inside and outside the deck.
GoToSlide ==
    /\ presentation.isOpen
    /\ \E index \in (0 - 1)..TotalSlides :
           presentation' =
               Called(IF presentation.isNavigating THEN presentation
                      ELSE IF /\ index >= 0
                              /\ index < TotalSlides
                              /\ index # presentation.currentSlideIndex
                           THEN StopIfAutoPlaying(
                                    NavigateToSlide(presentation, index))
                           ELSE presentation,
                      "goToSlide", presentation.isNavigating)
    /\ PresentationUnchanged

\* toggleAutoPlay(); autoplay is started while fewer than MaxTimers
\* callbacks are pending.
ToggleAutoPlay ==
    /\ presentation.isOpen
    /\ presentation.isAutoPlaying
           \/ BagCardinality(presentation.timers) < MaxTimers
    /\ presentation' = Called(IF presentation.isAutoPlaying
                              THEN StopAutoPlay(presentation)
                              ELSE StartAutoPlay(presentation),
                              "toggleAutoPlay", FALSE)
    /\ PresentationUnchanged

\* A timer whose deadline has come runs its callback.
TimerFires ==
    /\ \E t \in BagToSet(presentation.timers) :
           LET p == [presentation EXCEPT !.timers = @ (-) SetToBag({t})]
           IN  /\ t.left = 0
               /\ presentation' =
                    CASE t.kind = "navEnd" ->
                             Called([p EXCEPT !.isNavigating = FALSE],
                                    "navEnd", FALSE)
                      [] t.kind = "autoPlay" ->
                             Called(AdvanceToNextSlide(p), "autoPlay",
                                    p.isNavigating)
                      [] t.kind = "retry" ->
                             Called(AdvanceToNextSlide(p), "retry",
                                    p.isNavigating)
                      [] t.kind = "reschedule" ->
                             Called(IF p.isAutoPlaying
                                    THEN ScheduleNextSlide(p) ELSE p,
                                    "reschedule", FALSE)
    /\ PresentationUnchanged

\* 100 ms pass: no pending timer is due.
Tick ==
    /\ presentation.timers # EmptyBag
    /\ \A t \in BagToSet(presentation.timers) : t.left > 0
    /\ presentation' =
         Called([presentation EXCEPT !.timers =
                    [t \in {Timer(u.kind, u.left - 1) : u \in DOMAIN @} |->
                         @[Timer(t.kind, t.left + 1)]]],
                "tick", FALSE)
    /\ PresentationUnchanged

NextPresentation ==
    \/ Open
    \/ Close
    \/ NextSlide
    \/ PrevSlide
    \/ GoToSlide
    \/ ToggleAutoPlay
    \/ TimerFires
    \/ Tick

SpecPresentation == InitPresentation /\ [][NextPresentation]_vars

----------------------------------------------------------------------------
(* The timeline claims, checked under SpecTimeline.                        *)

MaxOf(S) == CHOOSE m \in S : \A x \in S : x <= m

\* The slide element a RenderedElement of slide i refers to.
Source(i, el) == slides[i].elements[el.element]

AnimatedOf(rs) == SelectSeq(rs.elements, IsAnimated)

\* The animated elements of slide i all have trigger afterPrevious and delay
\* 0, and their orders are strictly increasing.
AfterPreviousChain(i) ==
    LET an == AnimatedOf(renderedSlides[i])
    IN  /\ \A k \in 1..Len(an) :
              /\ TriggerOf(Source(i, an[k])) = "afterPrevious"
              /\ DelayOf(Source(i, an[k])) = 0
        /\ \A j, k \in 1..Len(an) :
              j < k => OrderOf(Source(i, an[j])) < OrderOf(Source(i, an[k]))

\* C4: in a chain of afterPrevious elements with delay 0 and strictly
\* increasing order, each element starts no earlier than the end of the one
\* before it.
C4_AfterPreviousChainIsSequential ==
    \A i \in 1..Len(renderedSlides) :
        AfterPreviousChain(i) =>
            LET an == AnimatedOf(renderedSlides[i])
            IN  \A k \in 1..(Len(an) - 1) :
                    an[k + 1].startTime >= an[k].startTime + an[k].duration

\* A slide resolved as such a chain of at least two animated elements.
C4_Witness ==
    \E i \in 1..Len(renderedSlides) :
        /\ AfterPreviousChain(i)
        /\ Len(AnimatedOf(renderedSlides[i])) >= 2

\* One turn of the element loop of preRenderSlide is being taken.
ElementStep ==
    /\ pc = "preRenderElements"
    /\ elemIdx <= Len(sortedElements)
    /\ Len(elements') = Len(elements) + 1

\* C5 as claimed: resolving an element whose trigger is not afterPrevious
\* leaves lastEnd unchanged.
C5_OnlyAfterPreviousAdvancesLastEnd ==
    [][(ElementStep /\ TriggerOf(sortedElements[elemIdx]) # "afterPrevious")
          => lastEndTime' = lastEndTime]_vars

EndsOfAnimated(done, n) ==
    {done[j].startTime + done[j].duration : j \in {m \in 1..n : IsAnimated(done[m])}}

\* C5 as amended: lastEnd is the latest end of all animated elements resolved
\* so far, whatever their trigger (and transitionDuration when there is
\* none), and an afterPrevious element starts at that value plus its delay.
C5_EveryAnimatedElementAdvancesLastEnd ==
    pc = "preRenderElements" =>
        LET td == TransitionDurationOf(slides[prepIdx])
        IN  /\ lastEndTime = MaxOf({td} \cup EndsOfAnimated(elements, Len(elements)))
            /\ \A k \in 1..Len(elements) :
                  (/\ IsAnimated(elements[k])
                   /\ TriggerOf(Source(prepIdx, elements[k])) = "afterPrevious")
                  => elements[k].startTime =
                         MaxOf({td} \cup EndsOfAnimated(elements, k - 1))
                         + DelayOf(Source(prepIdx, elements[k]))

\* An afterPrevious element was delayed by an onClick element before it.
C5_Witness ==
    /\ pc = "preRenderElements"
    /\ Len(elements) = 2
    /\ IsAnimated(elements[1])
    /\ TriggerOf(Source(prepIdx, elements[1])) = "onClick"
    /\ IsAnimated(elements[2])
    /\ TriggerOf(Source(prepIdx, elements[2])) = "afterPrevious"
    /\ elements[2].startTime = elements[1].startTime + elements[1].duration
                               + DelayOf(Source(prepIdx, elements[2]))
    /\ elements[2].startTime > TransitionDurationOf(slides[prepIdx])
                               + DelayOf(Source(prepIdx, elements[2]))

\* C6: a withPrevious element starts at the startTime of the latest animated
\* element resolved before it (elements of type none skipped) plus its own
\* delay, at transitionDuration plus delay when there is none; resolving an
\* element of type none leaves lastEnd unchanged.
C6_WithPreviousAnchorsToPreviousStart ==
    [][ElementStep =>
          LET e == sortedElements[elemIdx]
              r == elements'[Len(elements')]
              preds == {j \in 1..Len(elements) : elements[j].animationType # "none"}
              anchor == IF preds = {} THEN TransitionDurationOf(slides[prepIdx])
                        ELSE elements[MaxOf(preds)].startTime
          IN  /\ AnimationTypeOf(e) = "none" => lastEndTime' = lastEndTime
              /\ (AnimationTypeOf(e) # "none" /\ TriggerOf(e) = "withPrevious")
                     => r.startTime = anchor + DelayOf(e)]_vars

\* A withPrevious element resolved with an element of type none between it
\* and its animated predecessor.
C6_Witness ==
    \E i \in 1..Len(renderedSlides) :
        LET els == renderedSlides[i].elements
        IN  /\ Len(els) = 3
            /\ IsAnimated(els[1]) /\ els[1].duration > 0
            /\ ~IsAnimated(els[2])
            /\ IsAnimated(els[3])
            /\ TriggerOf(Source(i, els[3])) = "withPrevious"
            /\ els[3].startTime = els[1].startTime + DelayOf(Source(i, els[3]))

\* C7: every animated onClick element starts at transitionDuration + delay.
C7_OnClickStartsAfterTransition ==
    \A i \in 1..Len(renderedSlides) :
        \A k \in 1..Len(renderedSlides[i].elements) :
            LET el == renderedSlides[i].elements[k]
            IN  (IsAnimated(el) /\ TriggerOf(Source(i, el)) = "onClick")
                    => el.startTime = renderedSlides[i].transitionDuration
                                      + DelayOf(Source(i, el))

\* An onClick element with a delay, resolved after another animated element
\* on a slide with the default transitionDuration of 0.5 s.
C7_Witness ==
    \E i \in 1..Len(renderedSlides) :
        LET els == renderedSlides[i].elements
        IN  /\ Len(els) = 2
            /\ IsAnimated(els[1])
            /\ IsAnimated(els[2])
            /\ TriggerOf(Source(i, els[2])) = "onClick"
            /\ DelayOf(Source(i, els[2])) > 0
            /\ renderedSlides[i].transitionDuration = DefaultTransitionDuration
            /\ els[2].startTime = DefaultTransitionDuration + DelayOf(Source(i, els[2]))

\* C8: every animated element starts at or after its slide's
\* transitionDuration.
C8_AnimatedStartsAfterTransition ==
    /\ \A i \in 1..Len(renderedSlides) :
          \A k \in 1..Len(renderedSlides[i].elements) :
              IsAnimated(renderedSlides[i].elements[k])
                  => renderedSlides[i].elements[k].startTime
                         >= renderedSlides[i].transitionDuration
    /\ pc = "preRenderElements" =>
          \A k \in 1..Len(elements) :
              IsAnimated(elements[k])
                  => elements[k].startTime >= TransitionDurationOf(slides[prepIdx])

\* A slide resolved with a withPrevious and an afterPrevious element.
C8_Witness ==
    \E i \in 1..Len(renderedSlides) :
        LET els == renderedSlides[i].elements
        IN  /\ Len(els) = 2
            /\ IsAnimated(els[1]) /\ TriggerOf(Source(i, els[1])) = "withPrevious"
            /\ IsAnimated(els[2]) /\ TriggerOf(Source(i, els[2])) = "afterPrevious"
            /\ renderedSlides[i].transitionDuration > DefaultTransitionDuration

----------------------------------------------------------------------------
(* The frame claims, checked under Spec.                                   *)

FramesOf(i) == frameCount[i].transition + frameCount[i].content

NoAnimatedElement(slide) ==
    \A k \in 1..Len(slide.elements) : AnimationTypeOf(slide.elements[k]) = "none"

\* Two slides of nominal duration 5 s without animated elements, the first
\* without a transition, the second entering with a fade of 1 s, at 10 fps.
TwoSlideScenario ==
    /\ fps = 10
    /\ Len(slides) = 2
    /\ slides[1].transition = UndefinedTransition
    /\ slides[2].transition = [type |-> "fade", duration |-> 10]
    /\ \A i \in 1..2 : SlideDurationOf(slides[i]) = 50 /\ NoAnimatedElement(slides[i])

\* C1 as claimed: the two-slide scenario yields 50 content frames for slide
\* 1, then 10 transition frames and 40 content frames for slide 2, 100 in all.
C1_TwoSlidesEmitHundredFrames ==
    (pc = "complete" /\ TwoSlideScenario) =>
        /\ frameCount[1] = [transition |-> 0, content |-> 50]
        /\ frameCount[2] = [transition |-> 10, content |-> 40]
        /\ FramesOf(1) + FramesOf(2) = 100

\* C2 as claimed: at 10 fps a slide of duration 5 s without transition whose
\* animations all end by slide-local time 5 s gets exactly 50 frames.
C2_FiveSecondSlideEmitsFiftyFrames ==
    (pc = "complete" /\ fps = 10) =>
        \A i \in 1..Len(slides) :
            (/\ SlideDurationOf(slides[i]) = 50
             /\ TransitionTypeOf(slides[i]) = "none"
             /\ GetMaxAnimationEnd(renderedSlides[i]) <= 50)
            => FramesOf(i) = 50

\* max over the animated elements of startTime + duration, measured from the
\* end of the transition (0 when nothing is animated).
MaxAnimationEndAfterTransition(rs) ==
    MaxOf({0} \cup {e - rs.transitionDuration :
                      e \in EndsOfAnimated(rs.elements, Len(rs.elements))})

\* C3 as claimed: the content frames of every slide cover
\* max(slideDuration - transitionDuration, maxAnimationEnd) seconds with
\* maxAnimationEnd measured from the end of the transition.
C3_ContentLastsUntilRelativeAnimationEnd ==
    pc = "complete" =>
        \A i \in 1..Len(slides) :
            LET rs == renderedSlides[i]
            IN  frameCount[i].content =
                    Ceil(Max(rs.slideDuration - rs.transitionDuration,
                             MaxAnimationEndAfterTransition(rs)) * fps, TicksPerSec)

\* The canvas holds the last content frame of slide i.
LastContentFrameOf(i) ==
    /\ canvas.kind = "content"
    /\ canvas.slide = i
    /\ canvas.frame = TotalFrames(renderedSlides[i], fps) - 1

AllAnimatedAtRest(i) ==
    \A k \in 1..Len(renderedSlides[i].elements) :
        IsAnimated(renderedSlides[i].elements[k]) => canvas.drawn[k] = "rest"

HasAnimated(i) ==
    \E k \in 1..Len(renderedSlides[i].elements) : IsAnimated(renderedSlides[i].elements[k])

\* C9: the last content frame of every slide draws every animated element in
\* its rest state, however long the animation chain; that frame is on the
\* canvas when the slide's frame loop ends and when the first transition
\* frame of the next slide is about to be drawn.
C9_AnimationsCompleteBeforeNextSlide ==
    /\ \A i \in 1..Len(renderedSlides) : LastContentFrameOf(i) => AllAnimatedAtRest(i)
    /\ (/\ pc = "render" \/ (pc = "transition" /\ frame = 0)
        /\ renderIdx > 1
        /\ HasAnimated(renderIdx - 1))
           => LastContentFrameOf(renderIdx - 1) /\ AllAnimatedAtRest(renderIdx - 1)

\* The next slide's transition is about to start after a slide whose
\* animation chain ended later than its nominal duration.
C9_Witness ==
    /\ pc = "transition"
    /\ frame = 0
    /\ GetMaxAnimationEnd(renderedSlides[renderIdx - 1])
           > renderedSlides[renderIdx - 1].slideDuration
    /\ LastContentFrameOf(renderIdx - 1)
    /\ AllAnimatedAtRest(renderIdx - 1)

\* C10 as claimed: an element without animation is drawn in every frame of
\* its slide, transition frames included.
C10_StaticElementsInEveryFrame ==
    canvas.kind \in {"transition", "content"} =>
        \A k \in 1..Len(renderedSlides[canvas.slide].elements) :
            ~IsAnimated(renderedSlides[canvas.slide].elements[k])
                => canvas.drawn[k] # "hidden"

----------------------------------------------------------------------------
(* The progress and failure claims, checked under Spec.                    *)

\* Position of a status in preparing -> rendering -> encoding -> complete.
Rank(status) ==
    CASE status = "preparing" -> 1
      [] status = "rendering" -> 2
      [] status = "encoding" -> 3
      [] status = "complete" -> 4
      [] OTHER -> 0

\* Every slide was pre-rendered and all its frames were captured.
AllSlidesRendered ==
    /\ Len(renderedSlides) = NumSlides
    /\ \A i \in 1..NumSlides :
          /\ frameCount[i].content = TotalFrames(renderedSlides[i], fps)
          /\ frameCount[i].transition =
                 IF HasTransition(i, renderedSlides[i])
                 THEN TransitionFrames(renderedSlides[i], fps) ELSE 0

\* C11: each call of the progress callback comes after no error report and
\* after no status later in the order than its own; 'encoding' is reported
\* only when every slide has been rendered, 'complete' only after 'encoding'.
C11_StatusesFollowTheOrder ==
    [][reported' # reported =>
          /\ reported["error"] = 0
          /\ progress'.status # "error" =>
                 \A s \in Statuses \ {"error"} :
                     reported[s] > 0 => Rank(s) <= Rank(progress'.status)
          /\ progress'.status = "encoding" => AllSlidesRendered
          /\ progress'.status = "complete" => reported["encoding"] > 0]_vars

\* A job of two slides went through the four statuses.
C11_Witness ==
    /\ pc = "complete"
    /\ NumSlides = 2
    /\ \A s \in Statuses \ {"error"} : reported[s] > 0
    /\ reported["error"] = 0

\* C12 as claimed: once the encoder has signalled its failure, the callback
\* has received status error exactly once, with a message, and exportToVideo
\* has returned null.
C12_EncoderErrorReportedOnce ==
    pc = "encoderFailed" =>
        /\ reported["error"] = 1
        /\ progress.status = "error"
        /\ progress.message # ""
        /\ result = "null"

\* C13 as claimed: a job waiting for an image whose load failed is not stuck
\* in Preparing; it can still move on, towards the Error state.
C13_ImageFailureEndsInError ==
    pc = "imageWait" => ENABLED Next

\* C14: with an empty slide list, once exportToVideo has moved, the callback
\* was called exactly once, with status error, totalSlides 0 and a message;
\* null was returned; nothing was rasterized, no recorder exists and no frame
\* was drawn.
C14_EmptyDeckReportsOneError ==
    (NumSlides = 0 /\ pc # "start") =>
        /\ pc = "error"
        /\ reported = [s \in Statuses |-> IF s = "error" THEN 1 ELSE 0]
        /\ progress.status = "error"
        /\ progress.totalSlides = 0
        /\ progress.message # ""
        /\ result = "null"
        /\ elements = <<>>
        /\ renderedSlides = <<>>
        /\ recorder = NoRecorder
        /\ canvas = BlankCanvas

\* The job on an empty slide list is over.
C14_Witness ==
    /\ NumSlides = 0
    /\ pc = "error"
    /\ reported["error"] = 1

----------------------------------------------------------------------------
(* Codec selection, checked under SpecCodec.                               *)

\* The mime types the runtime can record with.
SupportedBy(rt) == IF rt.hasMediaRecorder THEN rt.supported ELSE {}

\* The first entry of the priority list that is in `supported`.
FirstSupported(supported) ==
    MimeTypes[CHOOSE k \in 1..Len(MimeTypes) :
                 /\ MimeTypes[k] \in supported
                 /\ \A j \in 1..(k - 1) : MimeTypes[j] \notin supported]

\* The job is past the point where the recorder is created.
PastSelection == pc \notin {"start", "preRender", "preRenderElements", "imageWait"}

\* C15: a recorder that exists records with the first mime type of the list
\* that the runtime supports, and the selection fails the job only when the
\* runtime supports none; with none supported no recorder exists, no frame is
\* drawn and a job that got past the selection is in Error, reported, with
\* null returned.
C15_CodecSelection ==
    NumSlides > 0 =>
        IF SupportedBy(runtime) = {}
        THEN /\ recorder = NoRecorder
             /\ canvas = BlankCanvas
             /\ PastSelection =>
                    /\ pc = "error"
                    /\ progress.status = "error"
                    /\ reported["error"] = 1
                    /\ result = "null"
        ELSE /\ recorder.state # "none" =>
                    recorder.mimeType = FirstSupported(runtime.supported)
             /\ pc = "error" => progress.message \in RasterMessages

\* The selection stepped down to the last entry and the job completed.
C15_Witness ==
    /\ runtime.hasMediaRecorder
    /\ runtime.supported = {MimeTypes[3]}
    /\ recorder.mimeType = MimeTypes[3]
    /\ pc = "complete"

----------------------------------------------------------------------------
(* getAnimationState, checked under SpecAnimation.                         *)

\* C16: at progress 0 the state has opacity 0, except for pulse, shake and
\* swing, whose state is the rest state.
C16_HiddenAtProgressZero ==
    (evaluation.done /\ evaluation.progress = 0) =>
        IF evaluation.type \in {"pulse", "shake", "swing"}
        THEN evaluation.state = RestState
        ELSE evaluation.state.opacity = 0

\* pulse was evaluated at progress 0.
C16_Witness ==
    /\ evaluation.done
    /\ evaluation.progress = 0
    /\ evaluation.type = "pulse"
    /\ evaluation.state.opacity = StateUnit

\* C17: at progress 1 the state is the rest state, for every type.
C17_RestAtProgressOne ==
    (evaluation.done /\ evaluation.progress = ProgressUnit) =>
        evaluation.state = RestState

\* bounceIn was evaluated at progress 1.
C17_Witness ==
    /\ evaluation.done
    /\ evaluation.progress = ProgressUnit
    /\ evaluation.type = "bounceIn"
    /\ evaluation.state.scale = StateUnit

----------------------------------------------------------------------------
(* Transition type none and the slide list, checked under Spec.            *)

\* renderTransitionFrame on slide i as if its transition type were none.
TransitionFrameOfNone(i, n) ==
    RenderTransitionFrame(renderedSlides[i - 1],
                          [renderedSlides[i] EXCEPT !.transitionType = "none"],
                          n, fps)

\* C18: for type none the transition frame shows the next slide's background
\* and not the previous snapshot, at every frame index; and no transition
\* frame is captured, or on the canvas, for a slide whose type is none.
C18_NoneDrawsNextBackgroundOnly ==
    /\ \A i \in 2..Len(renderedSlides) :
           \A n \in 0..TransitionFrames(renderedSlides[i], fps) :
               /\ ~TransitionFrameOfNone(i, n).prevSnapshot
               /\ TransitionFrameOfNone(i, n).background = i
    /\ \A i \in 1..Len(renderedSlides) :
           renderedSlides[i].transitionType = "none" => frameCount[i].transition = 0
    /\ canvas.kind = "transition" =>
           renderedSlides[canvas.slide].transitionType # "none"

\* A second slide with transition type none and a duration was rendered
\* without transition frames.
C18_Witness ==
    /\ pc = "complete"
    /\ NumSlides = 2
    /\ slides[2].transition.type = "none"
    /\ slides[2].transition.duration > 0
    /\ frameCount[2].transition = 0
    /\ frameCount[2].content > 0

\* C20: no step of the job changes the slide list: the slides, each slide's
\* elements and their order, and every field of every element.
C20_SlidesUnchanged == [][slides' = slides]_vars

\* The job completed on a deck with a slide whose elements are not in order
\* of animation, so that the sort had something to move.
C20_Witness ==
    /\ pc = "complete"
    /\ \E i \in 1..NumSlides : SortByOrder(slides[i].elements) # slides[i].elements

----------------------------------------------------------------------------
(* The frame schedule, checked under SpecCodec.                            *)

\* ceil(n / d), written without Ceil.
CeilingOf(n, d) == CHOOSE q \in 0..n : q * d >= n /\ (q - 1) * d < n

\* Transition frames slide i is to get: none for the first slide and for
\* type none, ceil(transitionDuration x fps) otherwise.
ExpectedTransitionFrames(i) ==
    IF i > 1 /\ renderedSlides[i].transitionType # "none"
    THEN CeilingOf(renderedSlides[i].transitionDuration * fps, TicksPerSec)
    ELSE 0

\* Content frames slide i is to get: ceil(contentDuration x fps).
ExpectedContentFrames(i) ==
    CeilingOf(ContentDuration(renderedSlides[i]) * fps, TicksPerSec)

\* C21: per slide, the transition frames captured never exceed the expected
\* number and equal it once a content frame of the slide was captured or the
\* slide is over; content frames never exceed ceil(contentDuration x fps) and
\* equal it once the slide is over; while a transition frame of slide i is on
\* the way, every earlier slide has all its frames and slide i has no content
\* frame.
C21_FrameSchedule ==
    \A i \in 1..Len(renderedSlides) :
        /\ frameCount[i].transition <= ExpectedTransitionFrames(i)
        /\ frameCount[i].content <= ExpectedContentFrames(i)
        /\ (frameCount[i].content > 0 \/ (pc = "content" /\ renderIdx = i)) =>
               frameCount[i].transition = ExpectedTransitionFrames(i)
        /\ (recorder.state # "none" /\ renderIdx > i) =>
               /\ frameCount[i].transition = ExpectedTransitionFrames(i)
               /\ frameCount[i].content = ExpectedContentFrames(i)
        /\ (pc = "transition" /\ renderIdx = i) =>
               /\ frameCount[i].content = 0
               /\ \A j \in 1..(i - 1) :
                      /\ frameCount[j].transition = ExpectedTransitionFrames(j)
                      /\ frameCount[j].content = ExpectedContentFrames(j)

\* A second slide got the two transition frames of 0.3 s at 4 fps, and a
\* slide after a transition of type none got none.
C21_Witness ==
    /\ pc = "complete"
    /\ fps = 4
    /\ NumSlides = 2
    /\ renderedSlides[2].transitionDuration = 3
    /\ frameCount[2].transition = 2
    /\ frameCount[1].transition = 0
    /\ frameCount[2].content > 0

----------------------------------------------------------------------------
(* Content frames, checked under Spec.                                     *)

\* C22: the k-th content frame is drawn at transitionDuration + k / fps, and
\* an animated element is drawn in it exactly when its startTime is not
\* later than that time.
C22_DrawnIffStarted ==
    canvas.kind = "content" =>
        LET rs == renderedSlides[canvas.slide]
        IN  /\ canvas.time = rs.transitionDuration * fps + canvas.frame * TicksPerSec
            /\ \A k \in 1..Len(rs.elements) :
                   IsAnimated(rs.elements[k]) =>
                       (canvas.drawn[k] # "hidden"
                            <=> rs.elements[k].startTime * fps <= canvas.time)

\* A content frame drawn exactly at the startTime of one animated element,
\* which it draws, and before the startTime of another, which it leaves out.
C22_Witness ==
    /\ canvas.kind = "content"
    /\ LET rs == renderedSlides[canvas.slide]
       IN  /\ \E k \in 1..Len(rs.elements) :
                  /\ IsAnimated(rs.elements[k])
                  /\ rs.elements[k].startTime * fps = canvas.time
                  /\ canvas.drawn[k] # "hidden"
           /\ \E k \in 1..Len(rs.elements) :
                  /\ IsAnimated(rs.elements[k])
                  /\ rs.elements[k].startTime * fps > canvas.time
                  /\ canvas.drawn[k] = "hidden"

----------------------------------------------------------------------------
(* Transitions blur and dissolve, checked under SpecCodec; terminal        *)
(* statuses, checked under Spec.                                           *)

\* C23 as claimed: a transition frame of type blur or dissolve is a
\* crossfade, so it shows the previous slide's snapshot (every transition
\* frame has progress below 1).
C23_BlurDissolveCrossfade ==
    (/\ canvas.kind = "transition"
     /\ renderedSlides[canvas.slide].transitionType \in {"blur", "dissolve"})
        => canvas.prevSnapshot

\* C25 as claimed: once error was reported or the promise rejected, no step
\* reports complete; once complete was reported, no step reports error.
C25_OneTerminalStatus ==
    [][/\ (reported["error"] > 0 \/ result = "rejected") =>
              reported'["complete"] = reported["complete"]
       /\ reported["complete"] > 0 =>
              reported'["error"] = reported["error"]]_vars

----------------------------------------------------------------------------
(* Visibility over the content frames, checked under Spec; the paint       *)
(* order, checked under SpecTimeline.                                      *)

\* C28: from one content frame of a slide to the next, an element that was
\* drawn is drawn, and an element that was drawn in its rest state is drawn
\* in its rest state.
C28_VisibilityIsMonotone ==
    [][(/\ canvas.kind = "content"
        /\ canvas'.kind = "content"
        /\ canvas'.slide = canvas.slide) =>
           \A k \in 1..Len(canvas.drawn) :
               /\ canvas.drawn[k] # "hidden" => canvas'.drawn[k] # "hidden"
               /\ canvas.drawn[k] = "rest" => canvas'.drawn[k] = "rest"]_vars

\* A content frame that follows a frame of the same slide shows an animated
\* element at rest and another one animating, and more frames are to come.
C28_Witness ==
    /\ pc = "content"
    /\ canvas.kind = "content"
    /\ canvas.slide = renderIdx
    /\ canvas.frame > 0
    /\ frame < TotalFrames(renderedSlides[renderIdx], fps)
    /\ \E k \in 1..Len(canvas.drawn) :
           /\ IsAnimated(renderedSlides[renderIdx].elements[k])
           /\ canvas.drawn[k] = "rest"
    /\ \E k \in 1..Len(canvas.drawn) : canvas.drawn[k] = "animating"

\* The animation order of an element, missing or zero taken as 1.
PaintKey(element) ==
    IF element.animation.order = 0 THEN 1 ELSE element.animation.order

\* The ids of the elements of prepared slide i, in the order in which
\* renderSlideFrame paints them.
PaintOrder(i) ==
    [k \in 1..Len(renderedSlides[i].elements) |-> renderedSlides[i].elements[k].element]

\* C29: the paint order of a prepared slide is a permutation of the slide's
\* elements in which an element comes before another exactly when its
\* animation order is lower, or equal with the element earlier in the
\* slide's list; the zIndex takes no part.
C29_PaintOrderIsStableSortByOrder ==
    \A i \in 1..Len(renderedSlides) :
        LET src == slides[i].elements
            ids == PaintOrder(i)
        IN  /\ Len(ids) = Len(src)
            /\ {ids[k] : k \in 1..Len(ids)} = 1..Len(src)
            /\ \A a, b \in 1..Len(ids) :
                   a < b =>
                       \/ PaintKey(src[ids[a]]) < PaintKey(src[ids[b]])
                       \/ /\ PaintKey(src[ids[a]]) = PaintKey(src[ids[b]])
                          /\ ids[a] < ids[b]

\* A slide of three elements with orders 2, 1, 1 was prepared: the paint
\* order is second, third, first, against both the list and the zIndex.
C29_Witness ==
    /\ Len(renderedSlides) = 1
    /\ Len(slides[1].elements) = 3
    /\ PaintKey(slides[1].elements[1]) = 2
    /\ PaintKey(slides[1].elements[2]) = 1
    /\ PaintKey(slides[1].elements[3]) = 1
    /\ PaintOrder(1) = <<2, 3, 1>>

----------------------------------------------------------------------------
(* The progress values, checked under SpecLongDeck.                        *)

\* What every report but an error report satisfies, whatever its status:
\* an integer in 0..100 not below the last one reported, currentSlide within
\* 0..totalSlides, totalSlides the number of slides.
ProgressValueInRange ==
    /\ progress'.progress \in 0..100
    /\ progress'.progress >= progress.progress
    /\ progress'.currentSlide \in 0..progress'.totalSlides
    /\ progress'.totalSlides = NumSlides
    /\ progress'.status = "preparing" => progress'.progress <= 30
    /\ progress'.status = "encoding" => progress'.progress = 90
    /\ progress'.status = "complete" => progress'.progress = 100

\* C24 as claimed: a rendering report is from 30 up to below 90.
C24_RenderingProgressBelow90 ==
    [][(reported' # reported /\ progress'.status # "error") =>
           /\ ProgressValueInRange
           /\ progress'.status = "rendering" =>
                  (30 <= progress'.progress /\ progress'.progress < 90)]_vars

\* C24, amended: a rendering report is from 30 up to 90, 90 included.
C24_RenderingProgressUpTo90 ==
    [][(reported' # reported /\ progress'.status # "error") =>
           /\ ProgressValueInRange
           /\ progress'.status = "rendering" =>
                  (30 <= progress'.progress /\ progress'.progress <= 90)]_vars

\* The last slide of a deck of 120 slides or more is being rendered: the
\* report says 90.
C24_Witness ==
    /\ progress.status = "rendering"
    /\ progress.currentSlide = NumSlides
    /\ progress.progress = 90

----------------------------------------------------------------------------
(* The export button, checked under SpecToolbar.                           *)

\* C27: a click starts a job only while isExportingVideo is false and no
\* job is in progress, so at most one job is in progress; and whenever the
\* flag is set, either the job is still awaited or the timer that clears
\* the flag is pending, whatever the outcome of the job was.
C27_OneExportAtATime ==
    [][/\ toolbar'.exports > toolbar.exports =>
             ~toolbar.isExportingVideo /\ toolbar.inProgress = 0
       /\ toolbar'.inProgress <= 1
       /\ toolbar'.isExportingVideo =>
             (toolbar'.awaiting \/ toolbar'.holdTimer)
       /\ (toolbar.awaiting /\ ~toolbar'.awaiting) =>
             (result \in {"blob", "null", "rejected"} /\ toolbar'.holdTimer)
       /\ (toolbar.holdTimer /\ ~toolbar'.holdTimer) =>
             ~toolbar'.isExportingVideo]_vars

\* A click was ignored during an export, the flag came back, a second
\* export was started and rejected, and the timer that clears the flag is
\* pending.
C27_Witness ==
    /\ toolbar.exports = 2
    /\ toolbar.ignored
    /\ result = "rejected"
    /\ toolbar.isExportingVideo
    /\ toolbar.holdTimer

----------------------------------------------------------------------------
(* The presentation component, checked under SpecPresentation.             *)

UserNavigation == {"nextSlide", "prevSlide", "goToSlide"}

\* C26: once stopAutoPlay has run and until startAutoPlay runs again, the
\* current slide changes only in a call of nextSlide, prevSlide or
\* goToSlide (or when the presentation is opened again), and no autoplay
\* timeout is pending.
C26_StoppedAutoPlayStaysStopped ==
    [][(presentation.stopped /\ presentation'.stopped) =>
           /\ presentation'.currentSlideIndex # presentation.currentSlideIndex
                  => presentation'.lastCall \in UserNavigation \cup {"open"}
           /\ \A t \in BagToSet(presentation'.timers) : t.kind # "autoPlay"
      ]_vars

PendingNavEnd(p) == {t \in BagToSet(p.timers) : t.kind = "navEnd"}

\* C30: the current slide index stays within 0..totalSlides-1; a call of
\* nextSlide, prevSlide or goToSlide made while isNavigating is true
\* changes no field, and an autoplay advance made then leaves the index;
\* isNavigating is set together with one timer of the transition duration
\* of the entered slide, is true exactly while that timer is pending, the
\* timer only runs down, is never overdue, and clears the flag when it
\* fires.
C30_NavigationIsGuarded ==
    [][/\ presentation'.currentSlideIndex \in 0..(TotalSlides - 1)
       /\ (presentation.isNavigating
               /\ presentation'.lastCall \in UserNavigation) =>
             presentation' = Called(presentation, presentation'.lastCall, TRUE)
       /\ (presentation.isNavigating
               /\ presentation'.lastCall \in {"autoPlay", "retry"}) =>
             /\ presentation'.currentSlideIndex =
                    presentation.currentSlideIndex
             /\ presentation'.isNavigating
       /\ (~presentation.isNavigating /\ presentation'.isNavigating) =>
             PendingNavEnd(presentation') =
                 {Timer("navEnd",
                        TransitionDurationAt(presentation'.currentSlideIndex))}
       /\ presentation'.isNavigating <=>
             /\ PendingNavEnd(presentation') # {}
             /\ \A t \in PendingNavEnd(presentation') :
                    CopiesIn(t, presentation'.timers) = 1
       /\ Cardinality(PendingNavEnd(presentation')) <= 1
       /\ \A t \in PendingNavEnd(presentation) :
             \A u \in PendingNavEnd(presentation') :
                 u.left <= t.left /\ u.left >= 0
       /\ presentation'.lastCall = "navEnd" => ~presentation'.isNavigating
      ]_vars

\* During autoplay the timer has advanced to the last of three slides, whose
\* transition is running, and a nextSlide of the user has been ignored.
C30_Witness ==
    /\ TotalSlides = 3
    /\ presentation.currentSlideIndex = 2
    /\ presentation.isAutoPlaying
    /\ presentation.isNavigating
    /\ presentation.lastCall = "nextSlide"
    /\ presentation.lastIgnored

====
